---- MODULE Spec2Model ----
(***************************************************************************)
(* Federated search over two MongoDB collections (Products, Articles):     *)
(*   - HighlightedText     frontend App.jsx, the term highlighter          *)
(*   - App                 frontend App.jsx, the debounced search effect   *)
(*   - globalSearch        backend/controllers/searchController.js         *)
(* Strings are sequences of one-character strings.                         *)
(***************************************************************************)
EXTENDS Integers, Sequences, FiniteSets, TLC

\* ------------------------------------------------------------------ bounds
MaxTextLen == 3
MaxQueryLen == 3
MaxChanges == 4
MaxTermLen == 2
MaxLiveChanges == 3

\* The characters of the model: two letters, one of them in both cases, the
\* blank (the only whitespace) and one pattern metacharacter.
Alphabet == {"a", "A", "b", " ", "."}

Strs(n) == UNION {[1..k -> Alphabet] : k \in 0..n}

\* ----------------------------------------------------------- string helpers
\* Case folding of the regular expressions' i flag.
Lower(c) == IF c = "A" THEN "a" ELSE c

IsSpace(c) == c = " "

RECURSIVE TrimLeft(_)
TrimLeft(s) ==
    IF s # <<>> /\ IsSpace(Head(s)) THEN TrimLeft(Tail(s)) ELSE s

RECURSIVE TrimRight(_)
TrimRight(s) ==
    IF s # <<>> /\ IsSpace(s[Len(s)])
    THEN TrimRight(SubSeq(s, 1, Len(s) - 1))
    ELSE s

\* String.prototype.trim
Trim(s) == TrimLeft(TrimRight(s))

\* String.prototype.split(/\s+/): the pieces between maximal runs of
\* whitespace, the empty pieces at either end included.
RECURSIVE SplitWsFrom(_, _, _)
SplitWsFrom(s, i, cur) ==
    IF i > Len(s) THEN <<cur>>
    ELSE IF IsSpace(s[i])
         THEN IF i < Len(s) /\ IsSpace(s[i + 1])
              THEN SplitWsFrom(s, i + 1, cur)
              ELSE <<cur>> \o SplitWsFrom(s, i + 1, <<>>)
         ELSE SplitWsFrom(s, i + 1, Append(cur, s[i]))

SplitWs(s) == SplitWsFrom(s, 1, <<>>)

\* Array.prototype.filter(t => t.length > 0)
NonEmpty(ts) == SelectSeq(ts, LAMBDA t : Len(t) > 0)

\* Array.prototype.sort((a, b) => b.length - a.length): stable, longest first.
RECURSIVE InsertByLen(_, _)
InsertByLen(t, sorted) ==
    IF sorted = <<>> THEN <<t>>
    ELSE IF Len(Head(sorted)) >= Len(t)
         THEN <<Head(sorted)>> \o InsertByLen(t, Tail(sorted))
         ELSE <<t>> \o sorted

RECURSIVE SortByLenDesc(_)
SortByLenDesc(ts) ==
    IF ts = <<>> THEN <<>>
    ELSE InsertByLen(ts[Len(ts)], SortByLenDesc(SubSeq(ts, 1, Len(ts) - 1)))

\* ------------------------------------------------------ regular expressions
\* The characters the highlighter's escape class [.*+?^${}()|[\]\\] holds,
\* of which the alphabet has one.
MetaChars == {"."}

\* The term put into the pattern as it is.
EscapeRegExp_None(term) == term

\* term.replace(/[.*+?^${}()|[\]\\]/g, '\\$&'): a backslash before each
\* metacharacter.
RECURSIVE EscapeRegExp(_)
EscapeRegExp(term) ==
    IF term = <<>> THEN <<>>
    ELSE (IF Head(term) \in MetaChars THEN <<"\\", Head(term)>> ELSE <<Head(term)>>)
         \o EscapeRegExp(Tail(term))

\* The compiled pattern of a source text: a sequence of tokens, "any" for an
\* unescaped dot, "lit" for an escaped character or any other character.
RECURSIVE Compile(_)
Compile(src) ==
    IF src = <<>> THEN <<>>
    ELSE IF Head(src) = "\\" /\ Len(src) >= 2
         THEN <<[kind |-> "lit", ch |-> src[2]]>> \o Compile(Tail(Tail(src)))
         ELSE IF Head(src) = "."
              THEN <<[kind |-> "any", ch |-> "."]>> \o Compile(Tail(src))
              ELSE <<[kind |-> "lit", ch |-> Head(src)]>> \o Compile(Tail(src))

\* One token against one character, under the i flag.
TokMatch(tok, c) == tok.kind = "any" \/ Lower(tok.ch) = Lower(c)

\* The pattern matches text at position i (sticky match).
MatchAt(pat, text, i) ==
    /\ i + Len(pat) - 1 <= Len(text)
    /\ \A k \in 1..Len(pat) : TokMatch(pat[k], text[i + k - 1])

\* The first alternative (in order) of (p1|p2|...) that matches at i, 0 if none.
FirstAlt(alts, text, i) ==
    IF \E n \in 1..Len(alts) : MatchAt(alts[n], text, i)
    THEN CHOOSE n \in 1..Len(alts) :
            /\ MatchAt(alts[n], text, i)
            /\ \A m \in 1..(n - 1) : ~MatchAt(alts[m], text, i)
    ELSE 0

\* String.prototype.split(/(p1|p2|...)/gi): the text between the matches and,
\* for the capturing group, each matched text, in order. cur is the piece
\* since the last split; a match that ends where the last split ended (an
\* empty match right after it) does not split.
RECURSIVE SplitRe(_, _, _, _)
SplitRe(alts, text, i, cur) ==
    IF i > Len(text) THEN <<cur>>
    ELSE LET n == FirstAlt(alts, text, i) IN
         IF n # 0 /\ ~(Len(alts[n]) = 0 /\ cur = <<>>)
         THEN <<cur, SubSeq(text, i, i + Len(alts[n]) - 1)>>
              \o SplitRe(alts, text, i + Len(alts[n]), <<>>)
         ELSE SplitRe(alts, text, i + 1, Append(cur, text[i]))

\* ------------------------------------------------------------- highlighter
\* Terms without the filter of empty terms.
Terms_NoFilter(query) == SortByLenDesc(SplitWs(Trim(query)))

\* Terms left in the order of the query.
Terms_Unsorted(query) == NonEmpty(SplitWs(Trim(query)))

\* query.trim().split(/\s+/).filter(t => t.length > 0).sort(by length, desc)
Terms(query) == SortByLenDesc(NonEmpty(SplitWs(Trim(query))))

\* terms.map(term => term.replace(/[.*+?^${}()|[\]\\]/g, '\\$&'))
SafeTerms(terms) == [n \in 1..Len(terms) |-> EscapeRegExp(terms[n])]

\* new RegExp(`(${safeTerms.join('|')})`, 'gi'): the alternatives, in order.
Patterns(safeTerms) == [n \in 1..Len(safeTerms) |-> Compile(safeTerms[n])]

\* Parts of the text folded to lower case before it is split.
Parts_Lowered(text, pats) == SplitRe(pats, [i \in 1..Len(text) |-> Lower(text[i])], 1, <<>>)

\* text.split(regex)
Parts(text, pats) == SplitRe(pats, text, 1, <<>>)

\* safeTerms.some(term => new RegExp(`^${term}$`, 'i').test(part))
isMatch(part, pats) ==
    \E n \in 1..Len(pats) :
        /\ Len(pats[n]) = Len(part)
        /\ MatchAt(pats[n], part, 1)

Span(t, m) == [text |-> t, match |-> m]

\* The spans HighlightedText renders inside its outer span.
HighlightedText(text, query) ==
    IF text = <<>> THEN <<Span(<<>>, FALSE)>>
    ELSE IF query = <<>> THEN <<Span(text, FALSE)>>
    ELSE LET terms == Terms(query) IN
         IF terms = <<>> THEN <<Span(text, FALSE)>>
         ELSE LET pats == Patterns(SafeTerms(terms))
                  parts == Parts(text, pats)
              IN [n \in 1..Len(parts) |-> Span(parts[n], isMatch(parts[n], pats))]

\* ------------------------------------------------------------ data sources
\* An absent value (undefined): a one-element sequence that is no string of
\* the alphabet, so that it compares with strings.
Undefined == <<"undefined">>

\* A document without a score field.
NoScore == -1

MaxScore == 2

\* The documents a collection may hold, modelled on the seed data: the text
\* fields of the Product schema (name and description required, category
\* optional) and of the Article schema (title and content required, author
\* optional). price and tags are carried through untouched and left out.
ProductPool ==
    << [id |-> "p1", name |-> <<"a", "b">>, description |-> <<"b", " ", "a">>,
        category |-> <<"A", ".">>],
       [id |-> "p2", name |-> <<"b">>, description |-> <<"b", "b">>,
        category |-> Undefined] >>

ArticlePool ==
    << [id |-> "a1", title |-> <<"A">>, content |-> <<"a", " ", "b">>,
        author |-> <<"b", ".">>],
       [id |-> "a2", title |-> <<"b">>, content |-> <<"b", "a", "b">>,
        author |-> Undefined] >>

\* The collections a database may hold: the documents of a pool that were
\* inserted, in insertion order.
RECURSIVE SubSeqs(_)
SubSeqs(pool) ==
    IF pool = <<>> THEN {<<>>}
    ELSE LET rest == SubSeqs(Tail(pool)) IN
         rest \cup {<<Head(pool)>> \o r : r \in rest}

\* { field: { $regex: searchTerm, $options: "i" } }: the search term is the
\* pattern itself, found anywhere in the field; an absent field matches nothing.
RegexFieldMatch(field, searchTerm) ==
    /\ field # Undefined
    /\ \E i \in 1..(Len(field) + 1) : MatchAt(Compile(searchTerm), field, i)

\* The $or of the Product query.
ProductRegexMatch(p, searchTerm) ==
    \/ RegexFieldMatch(p.name, searchTerm)
    \/ RegexFieldMatch(p.description, searchTerm)
    \/ RegexFieldMatch(p.category, searchTerm)

\* The $or of the Article query.
ArticleRegexMatch(a, searchTerm) ==
    \/ RegexFieldMatch(a.title, searchTerm)
    \/ RegexFieldMatch(a.content, searchTerm)
    \/ RegexFieldMatch(a.author, searchTerm)

\* The words of a text for the text index: the maximal runs of letters, case
\* folded (stemming and stop words are left out).
IsLetter(c) == c \in {"a", "A", "b"}

RECURSIVE WordsFrom(_, _, _)
WordsFrom(s, i, cur) ==
    IF i > Len(s) THEN (IF cur = <<>> THEN {} ELSE {cur})
    ELSE IF IsLetter(s[i])
         THEN WordsFrom(s, i + 1, Append(cur, Lower(s[i])))
         ELSE (IF cur = <<>> THEN {} ELSE {cur}) \cup WordsFrom(s, i + 1, <<>>)

Words(s) == IF s = Undefined THEN {} ELSE WordsFrom(s, 1, <<>>)

\* { $text: { $search: searchTerm } } over the Product text index (name,
\* description, category): some word of the search term is a word of a field.
ProductTextMatch(p, searchTerm) ==
    Words(searchTerm) \cap (Words(p.name) \cup Words(p.description) \cup Words(p.category)) # {}

\* The same over the Article text index (title, content, author).
ArticleTextMatch(a, searchTerm) ==
    Words(searchTerm) \cap (Words(a.title) \cup Words(a.content) \cup Words(a.author)) # {}

Injections(n) == {f \in [1..n -> 1..n] : \A i, j \in 1..n : f[i] = f[j] => i = j}

SortedByScoreDesc(rs) == \A i, j \in 1..Len(rs) : i < j => rs[i].score >= rs[j].score

WithScore(doc, sc) == [doc |-> doc, score |-> sc]

\* What a regex find() may resolve with: the matching documents, projected
\* without a score, in whatever order the collection yields them.
RegexFindResults(matching) ==
    { [i \in 1..Len(matching) |-> WithScore(matching[f[i]], NoScore)] :
        f \in Injections(Len(matching)) }

\* What a $text find().sort({score: {$meta: "textScore"}}) may resolve with:
\* the matching documents, each with the text score the database computed,
\* highest score first.
TextFindResults(matching) ==
    { rs \in UNION { { [i \in 1..Len(matching) |-> WithScore(matching[f[i]], sc[i])] :
                         f \in Injections(Len(matching)) } :
                     sc \in [1..Len(matching) -> 1..MaxScore] } :
        SortedByScoreDesc(rs) }

\* The search terms that hold an opening parenthesis, which no closing one
\* follows: as a $regex they are no regular expression.
PatternQueries == {<<"(">>, <<"a", "(">>}

\* The q a request may carry.
SearchTerms == Strs(MaxQueryLen) \cup PatternQueries \cup {Undefined}

\* The database compiles the pattern: an unescaped "(" without its ")" is an
\* error.
ValidPattern(src) == \A i \in 1..Len(src) : src[i] # "("

\* The query is one the database can run: a $regex must compile.
Runnable(variant, searchTerm) == variant = "regex" => ValidPattern(searchTerm)

\* The error.message values a find() may reject with: the database cannot be
\* reached, or it refuses the $regex.
FindErrors(variant, searchTerm) ==
    {"unreachable"} \cup (IF Runnable(variant, searchTerm) THEN {} ELSE {"invalid regex"})

ProductFind(variant, db, searchTerm) ==
    IF variant = "regex"
    THEN RegexFindResults(SelectSeq(db, LAMBDA p : ProductRegexMatch(p, searchTerm)))
    ELSE TextFindResults(SelectSeq(db, LAMBDA p : ProductTextMatch(p, searchTerm)))

ArticleFind(variant, db, searchTerm) ==
    IF variant = "regex"
    THEN RegexFindResults(SelectSeq(db, LAMBDA a : ArticleRegexMatch(a, searchTerm)))
    ELSE TextFindResults(SelectSeq(db, LAMBDA a : ArticleTextMatch(a, searchTerm)))

\* ------------------------------------------------------------ globalSearch
\* The validation without the trim.
IsBlankTerm_NoTrim(q) == q = Undefined \/ q = <<>>

\* !searchTerm || searchTerm.trim() === ""
IsBlankTerm(q) == q = Undefined \/ q = <<>> \/ Trim(q) = <<>>

\* The score passed on as the source gave it.
ScoreOrZero_Raw(sc) == sc

\* p.score ?? 0
ScoreOrZero(sc) == IF sc = NoScore THEN 0 ELSE sc

\* products.map((p) => ({type: "product", id: p._id, name, description,
\* category, price, score: p.score ?? 0}))
ProductItem(r) ==
    [type |-> "product", id |-> r.doc.id,
     name |-> r.doc.name, description |-> r.doc.description, category |-> r.doc.category,
     title |-> Undefined, content |-> Undefined, author |-> Undefined,
     score |-> ScoreOrZero(r.score)]

\* articles.map((a) => ({type: "article", id: a._id, title, content, author,
\* tags, score: a.score ?? 0}))
ArticleItem(r) ==
    [type |-> "article", id |-> r.doc.id,
     name |-> Undefined, description |-> Undefined, category |-> Undefined,
     title |-> r.doc.title, content |-> r.doc.content, author |-> r.doc.author,
     score |-> ScoreOrZero(r.score)]

\* The articles spread before the products.
Combine_ArticlesFirst(ps, as) ==
    [i \in 1..Len(as) |-> ArticleItem(as[i])] \o [i \in 1..Len(ps) |-> ProductItem(ps[i])]

\* [...products.map(...), ...articles.map(...)]
Combine(ps, as) ==
    [i \in 1..Len(ps) |-> ProductItem(ps[i])] \o [i \in 1..Len(as) |-> ArticleItem(as[i])]

\* An insertion that puts x before the results of equal score.
RECURSIVE InsertByScore_Unstable(_, _)
InsertByScore_Unstable(x, sorted) ==
    IF sorted = <<>> THEN <<x>>
    ELSE IF Head(sorted).score > x.score
         THEN <<Head(sorted)>> \o InsertByScore_Unstable(x, Tail(sorted))
         ELSE <<x>> \o sorted

\* results.sort((a, b) => b.score - a.score): stable, highest score first.
RECURSIVE InsertByScore(_, _)
InsertByScore(x, sorted) ==
    IF sorted = <<>> THEN <<x>>
    ELSE IF Head(sorted).score >= x.score
         THEN <<Head(sorted)>> \o InsertByScore(x, Tail(sorted))
         ELSE <<x>> \o sorted

\* The combined results left as they were concatenated.
SortByScore_None(rs) == rs

RECURSIVE SortByScore(_)
SortByScore(rs) ==
    IF rs = <<>> THEN <<>>
    ELSE InsertByScore(rs[Len(rs)], SortByScore(SubSeq(rs, 1, Len(rs) - 1)))

NoMessage == [text |-> "", arg |-> <<>>]

\* res.status(400).json({success: false, message})
BadRequest ==
    [status |-> 400, fields |-> {"success", "message"}, success |-> FALSE,
     count |-> 0, query |-> <<>>, results |-> <<>>,
     message |-> [text |-> "Search term is required. Use ?q=your-search-term", arg |-> <<>>]]

\* No results answered as an error.
NoResults_NotFound(q) ==
    [status |-> 404, fields |-> {"success", "message"}, success |-> FALSE,
     count |-> 0, query |-> <<>>, results |-> <<>>,
     message |-> [text |-> "No results found for", arg |-> q]]

\* res.status(200).json({success: true, count: 0, message, results: []})
NoResults(q) ==
    [status |-> 200, fields |-> {"success", "count", "message", "results"}, success |-> TRUE,
     count |-> 0, query |-> <<>>, results |-> <<>>,
     message |-> [text |-> "No results found for", arg |-> q]]

\* The response without the query field.
Found_NoQuery(q, rs) ==
    [status |-> 200, fields |-> {"success", "count", "results"}, success |-> TRUE,
     count |-> Len(rs), query |-> <<>>, results |-> rs, message |-> NoMessage]

\* res.status(200).json({success: true, count: results.length, query, results})
Found(q, rs) ==
    [status |-> 200, fields |-> {"success", "count", "query", "results"}, success |-> TRUE,
     count |-> Len(rs), query |-> q, results |-> rs, message |-> NoMessage]

\* res.status(500).json({success: false, message, error: error.message})
ServerError(err) ==
    [status |-> 500, fields |-> {"success", "message", "error"}, success |-> FALSE,
     count |-> 0, query |-> <<>>, results |-> <<>>,
     message |-> [text |-> "Server error occurred", arg |-> <<>>], error |-> err]

\* The response to the sorted, combined results.
Respond200(q, rs) == IF Len(rs) = 0 THEN NoResults(q) ELSE Found(q, rs)

\* --------------------------------------------------------------------- App
\* The values the user may give the search input: empty, whitespace-only,
\* and three non-blank values, one a prefix of another.
InputValues == {<<>>, <<" ">>, <<"a">>, <<"a", "b">>, <<"b">>}

\* !query.trim()
IsBlankInput(q) == Trim(q) = <<>>

\* The JSON bodies the search endpoint may answer with: no results, results
\* of both sources, items whose name, title, description, content or score
\* is empty or absent, and a body without a results field.
EmptyItem ==
    [type |-> "product", id |-> "p3", name |-> <<>>, description |-> Undefined,
     category |-> Undefined, title |-> Undefined, content |-> <<>>, author |-> Undefined,
     score |-> NoScore]

ResponseBodies ==
    { [fields |-> {"success", "count", "message", "results"}, results |-> <<>>],
      [fields |-> {"success", "count", "query", "results"},
       results |-> <<ProductItem(WithScore(ProductPool[1], NoScore))>>],
      [fields |-> {"success", "count", "query", "results"},
       results |-> <<ArticleItem(WithScore(ArticlePool[1], 2)), EmptyItem>>],
      [fields |-> {"success"}, results |-> <<>>] }

\* a || b for strings: the empty string and undefined are falsy.
Falsy(x) == x = Undefined \/ x = <<>>

\* a ?? b: only undefined gives way.
OrElse_UndefinedOnly(x, y) == IF x = Undefined THEN y ELSE x

OrElse(x, y) == IF Falsy(x) THEN y ELSE x

Untitled == <<"U", "n", "t", "i", "t", "l", "e", "d">>

\* typeof item.score === 'number' ? item.score.toFixed(2) : '0.00'
DisplayScore(sc) ==
    IF sc = NoScore THEN <<"0", ".", "0", "0">> ELSE <<ToString(sc), ".", "0", "0">>

\* The item as the result list shows it.
NormalizeItem(item) ==
    [id |-> item.id,
     type |-> item.type,
     title |-> OrElse(OrElse(item.name, item.title), Untitled),
     description |-> OrElse(OrElse(item.description, item.content), <<>>),
     displayScore |-> DisplayScore(item.score)]

\* (data.results || []).map(item => ...)
Normalize(body) ==
    IF "results" \in body.fields
    THEN [i \in 1..Len(body.results) |-> NormalizeItem(body.results[i])]
    ELSE <<>>

\* ------------------------------------------------------------------- state
VARIABLES
    hlDone,         \* the highlighter has rendered
    hlText,         \* its text prop
    hlQuery,        \* its query prop
    hlSpans,        \* the spans it rendered
    server,         \* the backend process: [mongo, listening, exited, exitCode]
    dbProducts,     \* the products collection
    dbArticles,     \* the articles collection
    pc,             \* globalSearch: where the handler of the request stands
    variant,        \* globalSearch: "regex" (searchController.js) or "text"
    searchTerm,     \* globalSearch: req.query.q
    productQuery,   \* Product.find: "none", "outstanding", "resolved", "rejected"
    articleQuery,   \* Article.find: the same
    productFinds,   \* how many times Product.find was dispatched
    articleFinds,   \* how many times Article.find was dispatched
    products,       \* what Product.find resolved with
    articles,       \* what Article.find resolved with
    responses,      \* the responses sent, in order
    query,          \* App: the input value
    results,        \* App: the normalized results shown
    isLoading,      \* App
    hasSearched,    \* App
    error,          \* App
    timers,         \* the pending setTimeout timers: [id, q]
    cleanupTimer,   \* the timer the effect's cleanup will clear, 0 if none
    requests,       \* the performSearch calls awaiting: [id, q, phase, superseded]
    changes,        \* how many times the input changed
    sent,           \* the q of every search request sent, in order
    burst,          \* non-blank changes in a row, each before the last one's timer fired
    burstSent,      \* the search requests sent since that row began
    outcome,        \* the performSearch call the last step completed, if any
    resultsFor      \* the q of the search whose response the results are, if any

hlVars == <<hlDone, hlText, hlQuery, hlSpans>>

srvVars == <<server, dbProducts, dbArticles, pc, variant, searchTerm, productQuery, articleQuery,
             productFinds, articleFinds, products, articles, responses>>

appVars == <<query, results, isLoading, hasSearched, error, timers, cleanupTimer, requests,
             changes, sent, burst, burstSent, outcome,
             resultsFor>>

vars == <<hlVars, srvVars, appVars>>

\* -------------------------------------------------- highlighter, as a system
HLIdle ==
    /\ hlDone = FALSE
    /\ hlText = <<>>
    /\ hlQuery = <<>>
    /\ hlSpans = <<>>

\* The backend process as started: mongoose.connect(...) is pending.
Connecting == [mongo |-> "connecting", listening |-> FALSE, exited |-> FALSE, exitCode |-> 0]

\* After the then callback: MongoDB connected, app.listen(PORT) called.
Listening == [mongo |-> "connected", listening |-> TRUE, exited |-> FALSE, exitCode |-> 0]

\* The process that logs the connection error and listens all the same.
Exited_Listening == [mongo |-> "failed", listening |-> TRUE, exited |-> FALSE, exitCode |-> 0]

\* After the catch callback: process.exit(1).
Exited == [mongo |-> "failed", listening |-> FALSE, exited |-> TRUE, exitCode |-> 1]

\* The process accepts requests.
Serving == server.listening /\ ~server.exited

SrvIdle ==
    /\ server = Connecting
    /\ dbProducts = <<>>
    /\ dbArticles = <<>>
    /\ pc = "idle"
    /\ variant = "regex"
    /\ searchTerm = Undefined
    /\ productQuery = "none"
    /\ articleQuery = "none"
    /\ productFinds = 0
    /\ articleFinds = 0
    /\ products = <<>>
    /\ articles = <<>>
    /\ responses = <<>>

\* No performSearch call ran to its end in the last step.
NoOutcome == [kind |-> "none", current |-> FALSE, body |-> [fields |-> {}, results |-> <<>>]]

\* App as mounted: useState's initial values, no timer, nothing sent.
AppIdle ==
    /\ query = <<>>
    /\ results = <<>>
    /\ isLoading = FALSE
    /\ hasSearched = FALSE
    /\ error = FALSE
    /\ timers = {}
    /\ cleanupTimer = 0
    /\ requests = {}
    /\ changes = 0
    /\ sent = <<>>
    /\ burst = 0
    /\ burstSent = 0
    /\ outcome = NoOutcome
    /\ resultsFor = Undefined

\* The props of one <HighlightedText text={text} query={query} />.
HLInit ==
    /\ hlDone = FALSE
    /\ hlText \in Strs(MaxTextLen)
    /\ hlQuery \in Strs(MaxQueryLen)
    /\ hlSpans = <<>>
    /\ SrvIdle
    /\ AppIdle

\* The characters of the terms and of the texts of the two-term renders.
TermChars == {"a", "A", "."}

TextChars == {"a", "A", "b", "."}

TermStrs == UNION {[1..k -> TermChars] : k \in 1..MaxTermLen}

\* The queries of two terms with one blank between them.
TwoTermQueries == {t1 \o <<" ">> \o t2 : t1 \in TermStrs, t2 \in TermStrs}

\* The props of one <HighlightedText /> whose query has two terms.
HL2Init ==
    /\ hlDone = FALSE
    /\ hlText \in UNION {[1..k -> TextChars] : k \in 0..MaxTextLen}
    /\ hlQuery \in TwoTermQueries
    /\ hlSpans = <<>>
    /\ SrvIdle
    /\ AppIdle

\* Its render.
Render ==
    /\ ~hlDone
    /\ hlSpans' = HighlightedText(hlText, hlQuery)
    /\ hlDone' = TRUE
    /\ UNCHANGED <<hlText, hlQuery>>
    /\ UNCHANGED <<srvVars, appVars>>

HLNext == Render

SpecHL == HLInit /\ [][HLNext]_vars

SpecHL2 == HL2Init /\ [][HLNext]_vars

\* ------------------------------------------------- globalSearch, as a system
\* A connected server over some database, no request received yet.
SrvInit ==
    /\ HLIdle
    /\ AppIdle
    /\ server = Listening
    /\ dbProducts \in SubSeqs(ProductPool)
    /\ dbArticles \in SubSeqs(ArticlePool)
    /\ pc = "idle"
    /\ variant = "regex"
    /\ searchTerm = Undefined
    /\ productQuery = "none"
    /\ articleQuery = "none"
    /\ productFinds = 0
    /\ articleFinds = 0
    /\ products = <<>>
    /\ articles = <<>>
    /\ responses = <<>>

\* The 400 response sent without the return: the handler goes on to
\* Product.find.
ReceiveBlank_NoReturn ==
    /\ Serving
    /\ pc = "idle"
    /\ \E q \in SearchTerms, v \in {"regex", "text"} :
        /\ IsBlankTerm(q)
        /\ searchTerm' = q
        /\ variant' = v
    /\ responses' = Append(responses, BadRequest)
    /\ productQuery' = "outstanding"
    /\ productFinds' = productFinds + 1
    /\ pc' = "awaitProducts"
    /\ UNCHANGED <<server, dbProducts, dbArticles, articleQuery, articleFinds, products,
                   articles>>
    /\ UNCHANGED <<hlVars, appVars>>

\* GET /api/global-search with a blank or missing q: the handler validates
\* and returns the 400 response.
ReceiveBlank ==
    /\ Serving
    /\ pc = "idle"
    /\ \E q \in SearchTerms, v \in {"regex", "text"} :
        /\ IsBlankTerm(q)
        /\ searchTerm' = q
        /\ variant' = v
    /\ responses' = Append(responses, BadRequest)
    /\ pc' = "done"
    /\ UNCHANGED <<server, dbProducts, dbArticles, productQuery, articleQuery, productFinds,
                   articleFinds, products, articles>>
    /\ UNCHANGED <<hlVars, appVars>>

\* GET /api/global-search with a q that passes validation: the handler runs
\* to its first await, that of Product.find.
ReceiveSearch ==
    /\ Serving
    /\ pc = "idle"
    /\ \E q \in SearchTerms, v \in {"regex", "text"} :
        /\ ~IsBlankTerm(q)
        /\ searchTerm' = q
        /\ variant' = v
    /\ productQuery' = "outstanding"
    /\ productFinds' = productFinds + 1
    /\ pc' = "awaitProducts"
    /\ UNCHANGED <<server, dbProducts, dbArticles, articleQuery, articleFinds, products, articles,
                   responses>>
    /\ UNCHANGED <<hlVars, appVars>>

\* The products answered at once, with Article.find still outstanding.
ProductsResolve_Early ==
    /\ pc = "awaitProducts"
    /\ Runnable(variant, searchTerm)
    /\ \E ps \in ProductFind(variant, dbProducts, searchTerm) :
        /\ products' = ps
        /\ responses' = Append(responses,
                               Respond200(searchTerm, SortByScore(Combine(ps, <<>>))))
    /\ productQuery' = "resolved"
    /\ articleQuery' = "outstanding"
    /\ articleFinds' = articleFinds + 1
    /\ pc' = "done"
    /\ UNCHANGED <<server, dbProducts, dbArticles, variant, searchTerm, productFinds, articles>>
    /\ UNCHANGED <<hlVars, appVars>>

\* Product.find resolves: the handler goes on to its second await, that of
\* Article.find.
ProductsResolve ==
    /\ pc = "awaitProducts"
    /\ Runnable(variant, searchTerm)
    /\ \E ps \in ProductFind(variant, dbProducts, searchTerm) : products' = ps
    /\ productQuery' = "resolved"
    /\ articleQuery' = "outstanding"
    /\ articleFinds' = articleFinds + 1
    /\ pc' = "awaitArticles"
    /\ UNCHANGED <<server, dbProducts, dbArticles, variant, searchTerm, productFinds, articles,
                   responses>>
    /\ UNCHANGED <<hlVars, appVars>>

\* Product.find rejects: the catch block sends the 500 response.
ProductsReject ==
    /\ pc = "awaitProducts"
    /\ productQuery' = "rejected"
    /\ \E err \in FindErrors(variant, searchTerm) :
          responses' = Append(responses, ServerError(err))
    /\ pc' = "done"
    /\ UNCHANGED <<server, dbProducts, dbArticles, variant, searchTerm, articleQuery, productFinds,
                   articleFinds, products, articles>>
    /\ UNCHANGED <<hlVars, appVars>>

\* Article.find resolves: the handler combines, sorts and responds.
ArticlesResolve ==
    /\ pc = "awaitArticles"
    /\ Runnable(variant, searchTerm)
    /\ \E as \in ArticleFind(variant, dbArticles, searchTerm) :
        /\ articles' = as
        /\ responses' = Append(responses,
                               Respond200(searchTerm, SortByScore(Combine(products, as))))
    /\ articleQuery' = "resolved"
    /\ pc' = "done"
    /\ UNCHANGED <<server, dbProducts, dbArticles, variant, searchTerm, productQuery, productFinds,
                   articleFinds, products>>
    /\ UNCHANGED <<hlVars, appVars>>

\* A failed Article query answered with the products alone.
ArticlesReject_Partial ==
    /\ pc = "awaitArticles"
    /\ articleQuery' = "rejected"
    /\ responses' = Append(responses,
                           Respond200(searchTerm, SortByScore(Combine(products, <<>>))))
    /\ pc' = "done"
    /\ UNCHANGED <<server, dbProducts, dbArticles, variant, searchTerm, productQuery, productFinds,
                   articleFinds, products, articles>>
    /\ UNCHANGED <<hlVars, appVars>>

\* Article.find rejects: the catch block sends the 500 response.
ArticlesReject ==
    /\ pc = "awaitArticles"
    /\ articleQuery' = "rejected"
    /\ \E err \in FindErrors(variant, searchTerm) :
          responses' = Append(responses, ServerError(err))
    /\ pc' = "done"
    /\ UNCHANGED <<server, dbProducts, dbArticles, variant, searchTerm, productQuery, productFinds,
                   articleFinds, products, articles>>
    /\ UNCHANGED <<hlVars, appVars>>

SrvNext ==
    \/ ReceiveBlank
    \/ ReceiveSearch
    \/ ProductsResolve
    \/ ProductsReject
    \/ ArticlesResolve
    \/ ArticlesReject

SpecSearch == SrvInit /\ [][SrvNext]_vars

\* ----------------------------------------------- the backend, from its start
\* The process started over some database, mongoose.connect pending.
BootInit ==
    /\ HLIdle
    /\ AppIdle
    /\ server = Connecting
    /\ dbProducts \in SubSeqs(ProductPool)
    /\ dbArticles \in SubSeqs(ArticlePool)
    /\ pc = "idle"
    /\ variant = "regex"
    /\ searchTerm = Undefined
    /\ productQuery = "none"
    /\ articleQuery = "none"
    /\ productFinds = 0
    /\ articleFinds = 0
    /\ products = <<>>
    /\ articles = <<>>
    /\ responses = <<>>

\* mongoose.connect resolves: the then callback calls app.listen(PORT).
ConnectResolves ==
    /\ server = Connecting
    /\ server' = Listening
    /\ UNCHANGED <<dbProducts, dbArticles, pc, variant, searchTerm, productQuery,
                   articleQuery, productFinds, articleFinds, products, articles, responses>>
    /\ UNCHANGED <<hlVars, appVars>>

\* mongoose.connect rejects: the catch callback calls process.exit(1).
ConnectRejects ==
    /\ server = Connecting
    /\ server' = Exited
    /\ UNCHANGED <<dbProducts, dbArticles, pc, variant, searchTerm, productQuery,
                   articleQuery, productFinds, articleFinds, products, articles, responses>>
    /\ UNCHANGED <<hlVars, appVars>>

BootNext ==
    \/ ConnectResolves
    \/ ConnectRejects
    \/ SrvNext

SpecBoot == BootInit /\ [][BootNext]_vars

\* ---------------------------------------------------------- App, as a system
Init ==
    /\ HLIdle
    /\ SrvIdle
    /\ AppIdle

\* The timer the last effect run set is still pending.
TimerPending == \E t \in timers : t.id = cleanupTimer

\* A cleanup that clears no timer.
Cleanup_Keep(ts) == ts

\* The effect's cleanup, run before the effect runs again: clearTimeout(timer).
Cleanup(ts) == {t \in ts : t.id # cleanupTimer}

Supersede(rs) == {[r EXCEPT !.superseded = TRUE] : r \in rs}

\* The blank branch run without the cleanup of the last effect run.
ChangeToBlank_KeepTimer ==
    /\ changes < MaxChanges
    /\ \E v \in InputValues :
        /\ v # query
        /\ IsBlankInput(v)
        /\ query' = v
    /\ changes' = changes + 1
    /\ cleanupTimer' = 0
    /\ results' = <<>>
    /\ resultsFor' = Undefined
    /\ hasSearched' = FALSE
    /\ isLoading' = FALSE
    /\ requests' = Supersede(requests)
    /\ burst' = 0
    /\ burstSent' = 0
    /\ outcome' = NoOutcome
    /\ UNCHANGED <<error, sent, timers>>
    /\ UNCHANGED <<hlVars, srvVars>>

\* onChange / handleClear set the input to a blank value: the cleanup of the
\* last effect run, then the effect's blank branch.
ChangeToBlank ==
    /\ changes < MaxChanges
    /\ \E v \in InputValues :
        /\ v # query
        /\ IsBlankInput(v)
        /\ query' = v
    /\ changes' = changes + 1
    /\ timers' = Cleanup(timers)
    /\ cleanupTimer' = 0
    /\ results' = <<>>
    /\ resultsFor' = Undefined
    /\ hasSearched' = FALSE
    /\ isLoading' = FALSE
    /\ requests' = Supersede(requests)
    /\ burst' = 0
    /\ burstSent' = 0
    /\ outcome' = NoOutcome
    /\ UNCHANGED <<error, sent>>
    /\ UNCHANGED <<hlVars, srvVars>>

\* The effect run again without the cleanup of its last run.
ChangeToSearch_NoCleanup ==
    /\ changes < MaxChanges
    /\ \E v \in InputValues :
        /\ v # query
        /\ ~IsBlankInput(v)
        /\ query' = v
        /\ timers' = timers \cup {[id |-> changes + 1, q |-> v]}
    /\ changes' = changes + 1
    /\ cleanupTimer' = changes + 1
    /\ requests' = Supersede(requests)
    /\ burst' = IF TimerPending THEN burst + 1 ELSE 1
    /\ burstSent' = IF TimerPending THEN burstSent ELSE 0
    /\ outcome' = NoOutcome
    /\ UNCHANGED <<results, resultsFor, isLoading, hasSearched, error, sent>>
    /\ UNCHANGED <<hlVars, srvVars>>

\* onChange sets the input to a non-blank value: the cleanup of the last
\* effect run, then the effect sets the 150 ms timer of performSearch.
ChangeToSearch ==
    /\ changes < MaxChanges
    /\ \E v \in InputValues :
        /\ v # query
        /\ ~IsBlankInput(v)
        /\ query' = v
        /\ timers' = Cleanup(timers) \cup {[id |-> changes + 1, q |-> v]}
    /\ changes' = changes + 1
    /\ cleanupTimer' = changes + 1
    /\ requests' = Supersede(requests)
    /\ burst' = IF TimerPending THEN burst + 1 ELSE 1
    /\ burstSent' = IF TimerPending THEN burstSent ELSE 0
    /\ outcome' = NoOutcome
    /\ UNCHANGED <<results, resultsFor, isLoading, hasSearched, error, sent>>
    /\ UNCHANGED <<hlVars, srvVars>>

\* A timer fires: performSearch runs to its first await, that of fetch.
TimerFires ==
    /\ \E t \in timers :
        /\ timers' = timers \ {t}
        /\ requests' = requests \cup
              {[id |-> t.id, q |-> t.q, phase |-> "fetch", superseded |-> FALSE]}
        /\ sent' = Append(sent, t.q)
    /\ isLoading' = TRUE
    /\ error' = FALSE
    /\ hasSearched' = TRUE
    /\ burstSent' = burstSent + 1
    /\ outcome' = NoOutcome
    /\ UNCHANGED <<query, results, resultsFor, cleanupTimer, changes, burst>>
    /\ UNCHANGED <<hlVars, srvVars>>

\* fetch resolves with an ok response: performSearch goes on to its second
\* await, that of response.json().
FetchOk ==
    /\ \E r \in requests :
        /\ r.phase = "fetch"
        /\ requests' = (requests \ {r}) \cup {[r EXCEPT !.phase = "json"]}
    /\ outcome' = NoOutcome
    /\ UNCHANGED <<query, results, resultsFor, isLoading, hasSearched, error, timers,
                   cleanupTimer, changes, sent, burst, burstSent>>
    /\ UNCHANGED <<hlVars, srvVars>>

\* The catch block without the finally block.
Failed_NoFinally ==
    /\ error' = TRUE
    /\ results' = <<>>
    /\ resultsFor' = Undefined
    /\ isLoading' = isLoading

\* catch (err) { setError(true); setResults([]) } finally { setIsLoading(false) }
Failed ==
    /\ error' = TRUE
    /\ results' = <<>>
    /\ resultsFor' = Undefined
    /\ isLoading' = FALSE

\* fetch rejects, or resolves with a response that is not ok.
FetchFails ==
    /\ \E r \in requests :
        /\ r.phase = "fetch"
        /\ requests' = requests \ {r}
        /\ outcome' = [NoOutcome EXCEPT !.kind = "failed", !.current = ~r.superseded]
    /\ Failed
    /\ UNCHANGED <<query, hasSearched, timers, cleanupTimer, changes, sent, burst, burstSent>>
    /\ UNCHANGED <<hlVars, srvVars>>

\* response.json() resolves: setResults(normalized), then the finally block.
JsonOk ==
    /\ \E r \in requests, body \in ResponseBodies :
        /\ r.phase = "json"
        /\ requests' = requests \ {r}
        /\ results' = Normalize(body)
        /\ resultsFor' = r.q
        /\ outcome' = [kind |-> "ok", current |-> ~r.superseded, body |-> body]
    /\ isLoading' = FALSE
    /\ UNCHANGED <<query, hasSearched, error, timers, cleanupTimer, changes, sent, burst,
                   burstSent>>
    /\ UNCHANGED <<hlVars, srvVars>>

\* response.json() rejects: the body is no JSON.
JsonFails ==
    /\ \E r \in requests :
        /\ r.phase = "json"
        /\ requests' = requests \ {r}
        /\ outcome' = [NoOutcome EXCEPT !.kind = "failed", !.current = ~r.superseded]
    /\ Failed
    /\ UNCHANGED <<query, hasSearched, timers, cleanupTimer, changes, sent, burst, burstSent>>
    /\ UNCHANGED <<hlVars, srvVars>>

Next ==
    \/ ChangeToBlank
    \/ ChangeToSearch
    \/ TimerFires
    \/ FetchOk
    \/ FetchFails
    \/ JsonOk
    \/ JsonFails

Spec == Init /\ [][Next]_vars

\* The browser runs a timer that is due, and every request that was sent comes
\* to an end: fetch resolves or rejects, and so does response.json().
Fairness ==
    /\ WF_vars(TimerFires)
    /\ WF_vars(FetchOk \/ FetchFails)
    /\ WF_vars(JsonOk \/ JsonFails)

\* The user changes the input a bounded number of times, then stops.
LiveChangeToBlank == changes < MaxLiveChanges /\ ChangeToBlank

LiveChangeToSearch == changes < MaxLiveChanges /\ ChangeToSearch

LiveNext ==
    \/ LiveChangeToBlank
    \/ LiveChangeToSearch
    \/ TimerFires
    \/ FetchOk
    \/ FetchFails
    \/ JsonOk
    \/ JsonFails

SpecLive == Init /\ [][LiveNext]_vars /\ Fairness

\* ------------------------------------------------------------------ claims
RECURSIVE Concat(_)
Concat(ss) == IF ss = <<>> THEN <<>> ELSE Head(ss).text \o Concat(Tail(ss))

Blank(s) == Trim(s) = <<>>

\* C1: the outcome of a search that was superseded by a change of the input
\* while it awaited its response changes neither results, nor error, nor the
\* loading state.
C1_Supersession ==
    [][\A r \in requests :
          (r.superseded /\ ~\E r2 \in requests' : r2.id = r.id)
              => UNCHANGED <<results, error, isLoading>>]_vars

\* The q of the request is missing, empty or whitespace-only.
BlankParam(q) == q = Undefined \/ Blank(q)

\* C2: the Article query is started without waiting for the Product query:
\* whenever the Product query is outstanding, the Article query has been
\* dispatched as well.
C2_ConcurrentDispatch == productQuery = "outstanding" => articleQuery # "none"

\* C3: once the response to a request with a non-blank q is sent, each of the
\* two sources has been queried exactly once.
C3_EachSourceOnce ==
    (pc = "done" /\ ~BlankParam(searchTerm)) => (productFinds = 1 /\ articleFinds = 1)

\* C4: a request whose q is missing, empty or whitespace-only is answered with
\* status 400 and success = false, and neither source query is dispatched.
C4_BlankRejected ==
    (pc # "idle" /\ BlankParam(searchTerm)) =>
        /\ pc = "done"
        /\ Len(responses) = 1
        /\ responses[1].status = 400
        /\ responses[1].success = FALSE
        /\ productFinds = 0 /\ articleFinds = 0
        /\ productQuery = "none" /\ articleQuery = "none"

\* A whitespace-only q was rejected over a database that holds documents.
C4_Witness ==
    /\ pc = "done"
    /\ searchTerm = <<" ", " ">>
    /\ responses = <<BadRequest>>
    /\ Len(dbProducts) = 2
    /\ Len(dbArticles) = 2

\* C5: in every 200 response the results are sorted non-increasing by score.
C5_SortedByScore ==
    \A n \in 1..Len(responses) :
        responses[n].status = 200 =>
            \A i, j \in 1..Len(responses[n].results) :
                i < j => responses[n].results[i].score >= responses[n].results[j].score

\* A 200 response in which an article of higher score was moved before the
\* product that was concatenated first.
C5_Witness ==
    /\ Len(responses) = 1
    /\ responses[1].status = 200
    /\ Len(responses[1].results) = 2
    /\ responses[1].results[1].type = "article"
    /\ responses[1].results[1].score = 2
    /\ responses[1].results[2].type = "product"
    /\ responses[1].results[2].score = 1

\* Where the document of result item x stands in what its source returned.
PosIn(returned, x) == CHOOSE k \in 1..Len(returned) : returned[k].doc.id = x.id

\* C6: among results of equal score every product precedes every article, and
\* results of the same source keep the order in which the source returned them.
C6_TieBreak ==
    \A n \in 1..Len(responses) :
        responses[n].status = 200 =>
            LET rs == responses[n].results IN
            \A i, j \in 1..Len(rs) :
                (i < j /\ rs[i].score = rs[j].score) =>
                    /\ ~(rs[i].type = "article" /\ rs[j].type = "product")
                    /\ (rs[i].type = "product" /\ rs[j].type = "product")
                          => PosIn(products, rs[i]) < PosIn(products, rs[j])
                    /\ (rs[i].type = "article" /\ rs[j].type = "article")
                          => PosIn(articles, rs[i]) < PosIn(articles, rs[j])

\* A 200 response with ties within and across the sources, below an article
\* of higher score; the products were returned in the reverse of their
\* insertion order.
C6_Witness ==
    /\ Len(responses) = 1
    /\ responses[1].status = 200
    /\ Len(responses[1].results) = 4
    /\ responses[1].results[1].type = "article" /\ responses[1].results[1].score = 2
    /\ responses[1].results[2].type = "product" /\ responses[1].results[2].score = 1
    /\ responses[1].results[3].type = "product" /\ responses[1].results[3].score = 1
    /\ responses[1].results[4].type = "article" /\ responses[1].results[4].score = 1
    /\ responses[1].results[2].id = "p2"

\* term occurs in text as a substring, ignoring case, every character literal.
ContainsCI(text, term) ==
    /\ text # Undefined
    /\ \E i \in 1..(Len(text) - Len(term) + 1) :
          \A k \in 1..Len(term) : Lower(text[i + k - 1]) = Lower(term[k])

\* The whitespace-separated terms of a query.
QueryTerms(q) == {SplitWs(Trim(q))[n] : n \in 1..Len(SplitWs(Trim(q)))} \ {<<>>}

\* C7: with the pattern-match queries, a source returns every record in which
\* a term of the query occurs, ignoring case, as a substring of one of the
\* source's searched fields.
C7_SubstringSemantics ==
    /\ (variant = "regex" /\ productQuery = "resolved") =>
          \A k \in 1..Len(dbProducts) :
              (\E t \in QueryTerms(searchTerm) :
                  \/ ContainsCI(dbProducts[k].name, t)
                  \/ ContainsCI(dbProducts[k].description, t)
                  \/ ContainsCI(dbProducts[k].category, t))
              => \E m \in 1..Len(products) : products[m].doc = dbProducts[k]
    /\ (variant = "regex" /\ articleQuery = "resolved") =>
          \A k \in 1..Len(dbArticles) :
              (\E t \in QueryTerms(searchTerm) :
                  \/ ContainsCI(dbArticles[k].title, t)
                  \/ ContainsCI(dbArticles[k].content, t)
                  \/ ContainsCI(dbArticles[k].author, t))
              => \E m \in 1..Len(articles) : articles[m].doc = dbArticles[k]

\* C8: in a row of non-blank input changes, each made before the timer of the
\* previous one fired, no search is sent while the last timer is pending, and
\* once it fired exactly one search was sent, for the final input value.
C8_Debounce ==
    burst > 0 =>
        IF TimerPending
        THEN burstSent = 0
        ELSE /\ burstSent = 1
             /\ sent # <<>>
             /\ sent[Len(sent)] = query

\* Three changes in a row, a, ab, b, and the one search sent is for b.
C8_Witness ==
    /\ burst = 3
    /\ ~TimerPending
    /\ sent = << <<"b">> >>
    /\ query = <<"b">>

\* C9: the spans HighlightedText produces, concatenated in order, equal its
\* text exactly (nothing dropped, duplicated, reordered or re-cased).
C9_Coverage == hlDone => Concat(hlSpans) = hlText

\* A render that split the text at a match written in another case than the term.
C9_Witness ==
    /\ hlDone
    /\ Len(hlSpans) = 3
    /\ hlSpans[2].match
    /\ hlSpans[2].text = <<"A">>
    /\ hlQuery = <<"a">>

\* C10: with an empty or whitespace-only query the text is rendered unchanged
\* as one non-match span, and an empty text is rendered as one empty span.
C10_BlankQueryOrText ==
    hlDone =>
        /\ Blank(hlQuery) => hlSpans = <<Span(hlText, FALSE)>>
        /\ hlText = <<>> => hlSpans = <<Span(<<>>, FALSE)>>

\* A whitespace-only, non-empty query against a text that holds a blank.
C10_Witness ==
    /\ hlDone
    /\ hlQuery = <<" ", " ">>
    /\ hlText = <<"a", " ", "b">>
    /\ hlSpans = <<Span(hlText, FALSE)>>

\* Where span n begins in the text.
RECURSIVE SpanStart(_, _)
SpanStart(ss, n) == IF n = 1 THEN 1 ELSE SpanStart(ss, n - 1) + Len(ss[n - 1].text)

\* term occurs in text at position p, ignoring case, every character literal.
OccursAt(text, term, p) ==
    /\ p + Len(term) - 1 <= Len(text)
    /\ \A k \in 1..Len(term) : Lower(text[p + k - 1]) = Lower(term[k])

\* The terms of a query as a set, split at the blanks.
TermSet(q) == {SplitWs(Trim(q))[n] : n \in 1..Len(SplitWs(Trim(q)))} \ {<<>>}

\* short is a strict substring of long, ignoring case.
StrictSubTerm(short, long) ==
    /\ Len(short) < Len(long)
    /\ \E p \in 1..Len(long) : OccursAt(long, short, p)

\* C11 as claimed: when one term of the query is a substring of another,
\* every occurrence of the longer term in the text is one single match span.
C11_EveryOccurrence ==
    hlDone =>
        \A short, long \in TermSet(hlQuery) :
            StrictSubTerm(short, long) =>
                \A p \in 1..Len(hlText) :
                    OccursAt(hlText, long, p) =>
                        \E n \in 1..Len(hlSpans) :
                            /\ hlSpans[n].match
                            /\ SpanStart(hlSpans, n) = p
                            /\ Len(hlSpans[n].text) = Len(long)

\* C11 as amended: a match span is never a shorter term where a longer term
\* of the query occurs: every occurrence of a term that begins where a match
\* span begins lies within that one span, whatever the order of the terms.
C11_LongerFirst ==
    hlDone =>
        \A n \in 1..Len(hlSpans) :
            hlSpans[n].match =>
                \A t \in TermSet(hlQuery) :
                    OccursAt(hlText, t, SpanStart(hlSpans, n)) =>
                        Len(hlSpans[n].text) >= Len(t)

\* The shorter term comes first in the query and the longer one, written in
\* another case in the text, is one span between two non-match spans.
C11_Witness ==
    /\ hlDone
    /\ hlQuery = <<"a", " ", "a", ".">>
    /\ hlText = <<"b", "A", ".">>
    /\ hlSpans = <<Span(<<"b">>, FALSE), Span(<<"A", ".">>, TRUE), Span(<<>>, FALSE)>>

\* C12: if either source query fails, the one response has status 500 and
\* success = false and carries no results of the source that succeeded.
C12_AllOrNothing ==
    (productQuery = "rejected" \/ articleQuery = "rejected") =>
        /\ Len(responses) = 1
        /\ responses[1].status = 500
        /\ responses[1].success = FALSE
        /\ "results" \notin responses[1].fields
        /\ responses[1].results = <<>>

\* The Article query failed after the Product query had returned two products.
C12_Witness ==
    /\ articleQuery = "rejected"
    /\ productQuery = "resolved"
    /\ Len(products) = 2
    /\ Len(responses) = 1

\* C13: when q is non-blank and both source queries succeed without a match,
\* the response has status 200, success = true, count = 0 and empty results.
C13_ZeroResultsIsSuccess ==
    (productQuery = "resolved" /\ articleQuery = "resolved"
        /\ products = <<>> /\ articles = <<>>) =>
        /\ Len(responses) = 1
        /\ responses[1].status = 200
        /\ responses[1].success = TRUE
        /\ {"success", "count", "results"} \subseteq responses[1].fields
        /\ responses[1].count = 0
        /\ responses[1].results = <<>>

\* Nothing matched in two collections that hold documents.
C13_Witness ==
    /\ pc = "done"
    /\ productQuery = "resolved" /\ articleQuery = "resolved"
    /\ products = <<>> /\ articles = <<>>
    /\ Len(dbProducts) = 2 /\ Len(dbArticles) = 2
    /\ variant = "regex"
    /\ ~Blank(searchTerm)

\* success, count and results are there and count is the length of results.
CountedResults(r) ==
    /\ {"success", "count", "results"} \subseteq r.fields
    /\ r.success = TRUE
    /\ r.count = Len(r.results)

\* C14 as claimed: every 200 response, the zero-results response included,
\* holds query equal to the requested q, and success, count and results, with
\* count the length of results.
C14_QueryInEvery200 ==
    \A n \in 1..Len(responses) :
        responses[n].status = 200 =>
            /\ CountedResults(responses[n])
            /\ "query" \in responses[n].fields
            /\ responses[n].query = searchTerm

\* C14 as amended: every 200 response holds success, count and results, with
\* count the length of results; with at least one result it also holds query
\* equal to the requested q, and with none it holds a message naming q and no
\* query field.
C14_ResponseShape ==
    \A n \in 1..Len(responses) :
        responses[n].status = 200 =>
            /\ CountedResults(responses[n])
            /\ IF responses[n].results # <<>>
               THEN /\ "query" \in responses[n].fields
                    /\ responses[n].query = searchTerm
               ELSE /\ "query" \notin responses[n].fields
                    /\ "message" \in responses[n].fields
                    /\ responses[n].message.arg = searchTerm

\* A 200 response with results to a q that ends with a blank, echoed untrimmed.
C14_Witness ==
    /\ Len(responses) = 1
    /\ responses[1].status = 200
    /\ responses[1].count = 1
    /\ searchTerm = <<"a", " ">>
    /\ responses[1].query = <<"a", " ">>

\* C15: while the input is blank, the stored results are empty and loading is
\* false, whatever response arrives for an earlier input.
C15_IdleWhileBlank == IsBlankInput(query) => (results = <<>> /\ ~isLoading)

\* C16: from the change of the input to a non-blank value on, before its timer
\* fires, loading is indicated and no error is shown.
C16_PendingAtChange == TimerPending => (isLoading /\ ~error)

\* C17: while the search for the current input awaits its response, isLoading
\* is true.
C17_LoadingUntilResponse == (\E r \in requests : ~r.superseded) => isLoading

\* C18: when the search for the current input fails, error is true, results
\* are empty and isLoading is false; when it succeeds with zero results, error
\* is false and results are empty.
C18_FailureVersusEmpty ==
    outcome.current =>
        /\ outcome.kind = "failed" => (error /\ results = <<>> /\ ~isLoading)
        /\ (/\ outcome.kind = "ok"
            /\ "results" \in outcome.body.fields
            /\ outcome.body.results = <<>>) => (~error /\ results = <<>> /\ ~isLoading)

\* The record of result item x in what its source returned.
SourceRecord(x) ==
    IF x.type = "product" THEN products[PosIn(products, x)] ELSE articles[PosIn(articles, x)]

\* C19: the score of every result of a response is a number: the score of the
\* source record if it has one, 0 otherwise.
C19_ScoreDefault ==
    \A n \in 1..Len(responses) :
        \A i \in 1..Len(responses[n].results) :
            LET x == responses[n].results[i] IN
            /\ x.score \in Nat
            /\ x.score = (IF SourceRecord(x).score = NoScore THEN 0 ELSE SourceRecord(x).score)

\* A response of the regex variant: the records have no score, the results 0.
C19_Witness ==
    /\ Len(responses) = 1
    /\ Len(responses[1].results) = 4
    /\ variant = "regex"
    /\ products[1].score = NoScore
    /\ responses[1].results[1].score = 0

\* The field is there and holds a non-empty string.
Present(x) == x # Undefined /\ x # <<>>

\* The items of a response body, none when it has no results field.
ItemsOf(body) == IF "results" \in body.fields THEN body.results ELSE <<>>

\* C20: after a response is normalized, the results are as many as the items of
\* the response and in their order; the title is the item's name if non-empty,
\* else its title if non-empty, else "Untitled"; the description is the item's
\* description if non-empty, else its content if non-empty, else empty.
C20_NormalizationTotal ==
    outcome.kind = "ok" =>
        LET items == ItemsOf(outcome.body) IN
        /\ Len(results) = Len(items)
        /\ \A i \in 1..Len(items) :
              /\ results[i].id = items[i].id
              /\ results[i].title =
                    IF Present(items[i].name) THEN items[i].name
                    ELSE IF Present(items[i].title) THEN items[i].title
                    ELSE Untitled
              /\ results[i].description =
                    IF Present(items[i].description) THEN items[i].description
                    ELSE IF Present(items[i].content) THEN items[i].content
                    ELSE <<>>

\* A response of two items was normalized: an article, which has no name, and
\* an item whose name and content are empty and whose title is absent.
C20_Witness ==
    /\ outcome.kind = "ok"
    /\ Len(results) = 2
    /\ ~Present(outcome.body.results[1].name)
    /\ results[1].title = outcome.body.results[1].title
    /\ outcome.body.results[2].name = <<>>
    /\ results[2].title = Untitled
    /\ results[2].description = <<>>

\* C21: the server listens only once the MongoDB connection has succeeded; a
\* failed connection ends the process with exit code 1 without listening; no
\* request is handled unless the connection was established.
C21_ListenAfterConnect ==
    /\ server.listening => server.mongo = "connected"
    /\ server.mongo = "failed" =>
          (server.exited /\ server.exitCode = 1 /\ ~server.listening)
    /\ (pc # "idle" \/ responses # <<>>) => server.mongo = "connected"

\* A search request was answered by a server that connected first.
C21_Witness ==
    /\ server.mongo = "connected"
    /\ server.listening
    /\ Len(responses) = 1
    /\ responses[1].status = 200

\* The two strings are equal, ignoring case.
EqCI(x, y) == Len(x) = Len(y) /\ \A k \in 1..Len(x) : Lower(x[k]) = Lower(y[k])

\* C22: a span is marked as a match if and only if it equals a term of the
\* query ignoring case, every character of the term taken literally; and no
\* span that is not marked contains an occurrence of a term, ignoring case.
C22_LiteralMarking ==
    hlDone =>
        \A n \in 1..Len(hlSpans) :
            /\ hlSpans[n].match <=> \E t \in TermSet(hlQuery) : EqCI(hlSpans[n].text, t)
            /\ ~hlSpans[n].match =>
                  \A t \in TermSet(hlQuery) : ~ContainsCI(hlSpans[n].text, t)

\* A term with a dot was matched in another case, next to text that is not
\* marked although a pattern's dot would match it.
C22_Witness ==
    /\ hlDone
    /\ \E n \in 1..Len(hlSpans) :
          /\ hlSpans[n].match
          /\ hlSpans[n].text \notin TermSet(hlQuery)
          /\ \E k \in 1..Len(hlSpans[n].text) : hlSpans[n].text[k] = "."
    /\ \E n \in 1..Len(hlSpans) : ~hlSpans[n].match /\ hlSpans[n].text # <<>>

\* C23: the content of a non-blank q never makes the call fail, and q is matched
\* as literal text: a 500 response is sent only when a source could not be
\* reached, and with the pattern-match queries every record a source returned
\* holds q itself, ignoring case, in one of the searched fields.
C23_QueryNeverFails ==
    /\ \A n \in 1..Len(responses) :
          responses[n].status = 500 => responses[n].error = "unreachable"
    /\ (variant = "regex" /\ productQuery = "resolved") =>
          \A m \in 1..Len(products) :
              \/ ContainsCI(products[m].doc.name, searchTerm)
              \/ ContainsCI(products[m].doc.description, searchTerm)
              \/ ContainsCI(products[m].doc.category, searchTerm)
    /\ (variant = "regex" /\ articleQuery = "resolved") =>
          \A m \in 1..Len(articles) :
              \/ ContainsCI(articles[m].doc.title, searchTerm)
              \/ ContainsCI(articles[m].doc.content, searchTerm)
              \/ ContainsCI(articles[m].doc.author, searchTerm)

\* The ids of the items of a response, and of the records a find() returned.
ItemIds(rs) == {rs[k].id : k \in 1..Len(rs)}

RecordIds(rs) == {rs[k].doc.id : k \in 1..Len(rs)}

\* C24: a 200 response to a search is sent only after both source queries have
\* completed, none is outstanding while one is sent, and its results are all
\* the records the two queries returned, no more and no fewer.
C24_PostJoin ==
    /\ (productQuery = "outstanding" \/ articleQuery = "outstanding") => responses = <<>>
    /\ \A n \in 1..Len(responses) :
          responses[n].status = 200 =>
              /\ productQuery = "resolved"
              /\ articleQuery = "resolved"
              /\ Len(responses[n].results) = Len(products) + Len(articles)
              /\ ItemIds(responses[n].results) = RecordIds(products) \cup RecordIds(articles)

\* A 200 response that merged records of both sources.
C24_Witness ==
    /\ Len(responses) = 1
    /\ responses[1].status = 200
    /\ products # <<>>
    /\ articles # <<>>
    /\ Len(responses[1].results) = Len(products) + Len(articles)

\* C25: a change of the input to a blank value cancels the pending timer: while
\* the input is blank no timer is pending and no search is sent.
C25_BlankCancels ==
    [][/\ IsBlankInput(query') => timers' = {}
       /\ IsBlankInput(query) => sent' = sent]_vars

\* The second change of the input made it blank: the first made it non-blank,
\* and its timer, which had not fired, is gone.
C25_Witness ==
    /\ changes = 2
    /\ query = <<" ">>
    /\ sent = <<>>
    /\ timers = {}

\* C26: once the input stops changing and every request sent has come to its
\* end, the controller is settled for good: not loading, and idle (blank
\* input), in error, or showing the outcome of a search.
C26_Settles ==
    <>[](/\ ~isLoading
         /\ timers = {}
         /\ requests = {}
         /\ (IsBlankInput(query) \/ error \/ hasSearched))

\* The controller settled in error after a search failed and a later input
\* was searched for.
C26_Witness ==
    /\ error
    /\ ~isLoading
    /\ timers = {}
    /\ requests = {}
    /\ Len(sent) >= 2
    /\ changes = MaxLiveChanges

\* hasSearched && !isLoading && !error: the 'Found N results for ...' line and
\* the results are shown.
SuccessView == hasSearched /\ ~isLoading /\ ~error

\* C27: whenever the Success view is shown, the stored results are the response
\* to a search whose q is the current input value.
C27_ResultsMatchQuery == SuccessView => resultsFor = query

\* C28: a call of globalSearch sends one response, with status 400, 200 or 500:
\* never two, and none is missing when the handler has ended.
C28_ExactlyOneResponse ==
    /\ Len(responses) <= 1
    /\ pc = "done" <=> Len(responses) = 1
    /\ \A n \in 1..Len(responses) : responses[n].status \in {400, 200, 500}

\* The handler ended on the zero-results path, which returns before the last
\* 200 response.
C28_Witness ==
    /\ pc = "done"
    /\ Len(responses) = 1
    /\ responses[1].status = 200
    /\ responses[1].results = <<>>

\* The ids of the records a find() returned, in its order.
IdSeq(rs) == [k \in 1..Len(rs) |-> rs[k].doc.id]

\* C29: with the pattern-match queries every result of a 200 response has
\* score 0, and the results are the products in the order their source
\* returned them, followed by the articles in the order theirs did.
C29_RegexSourceOrder ==
    variant = "regex" =>
        \A n \in 1..Len(responses) :
            responses[n].status = 200 =>
                /\ \A k \in 1..Len(responses[n].results) : responses[n].results[k].score = 0
                /\ [k \in 1..Len(responses[n].results) |-> responses[n].results[k].id]
                      = IdSeq(products) \o IdSeq(articles)

\* A pattern-match response of two products and an article.
C29_Witness ==
    /\ variant = "regex"
    /\ Len(responses) = 1
    /\ responses[1].status = 200
    /\ Len(products) = 2
    /\ Len(articles) >= 1
    /\ Len(responses[1].results) = Len(products) + Len(articles)

\* C30: at most one timer is pending, and it was set for the current input
\* value; a search request that is sent carries the current input value, which
\* is not blank.
C30_OneTimerCurrentInput ==
    [][/\ Cardinality(timers') <= 1
       /\ \A t \in timers' : t.q = query'
       /\ sent' # sent =>
             /\ sent' = Append(sent, query)
             /\ ~Blank(query)]_vars

\* The input changed twice in a row, the second time with the first timer
\* pending, and the one search sent is for the second value.
C30_Witness ==
    /\ changes = 2
    /\ burst = 2
    /\ timers = {}
    /\ sent = <<query>>

====
